---- MODULE Spec2Model ----
(***************************************************************************)
(* Model of lonely_cnf_generator.cpp: the CNF builder, the sequential      *)
(* counter cardinality encoder (addAtMostK / addExactlyK), the two         *)
(* dominance reductions and the constraint assembly of main.               *)
(*                                                                         *)
(* Two specifications share the variables:                                 *)
(*   Spec      the pipeline of main, step by step, over a bounded family   *)
(*             of coverage relations, candidate lists, divisor lists and k *)
(*   SpecCard  one call of addAtMostK or addExactlyK on a fresh CNF, over  *)
(*             a bounded family of literal lists and bounds                *)
(***************************************************************************)
EXTENDS Integers, Sequences, FiniteSets

VARIABLES pc, cnf, xs, R, nearZero, initialCandidates, candidates,
          primeDivisors, k, coverSets, essentialTimes, xVars,
          uncoverable_count

vars == <<pc, cnf, xs, R, nearZero, initialCandidates, candidates,
          primeDivisors, k, coverSets, essentialTimes, xVars,
          uncoverable_count>>

(* ---------------- bounds of the model ---------------- *)

\* longest literal list handed to the cardinality encoder
MaxLen == 3

\* velocities are 1..MaxVel (maxM of the source, as far as candidates go)
MaxVel == 3

\* requirement slots are 0..NumSlots-1 (maxM of the source, as far as times go)
NumSlots == 2

\* k ranges over 0..MaxK
MaxK == 3

Min(a, b) == IF a < b THEN a ELSE b

Max(a, b) == IF a > b THEN a ELSE b

Range(f) == {f[i] : i \in DOMAIN f}

(* ---------------- CNF builder ---------------- *)

EmptyCNF == [numVars |-> 0, clauses |-> <<>>]

\* int newVar() { return ++numVars; }  the new id is c.numVars + 1
NewVar(c) == [c EXCEPT !.numVars = @ + 1]

\* void addClause(lits): the empty clause is dropped
AddClause(c, lits) ==
    IF lits = <<>> THEN c ELSE [c EXCEPT !.clauses = Append(@, lits)]

RECURSIVE AddClauses(_, _)
\* a run of consecutive addClause calls, in order
AddClauses(c, cls) ==
    IF cls = <<>> THEN c ELSE AddClauses(AddClause(c, Head(cls)), Tail(cls))

(* ---------------- sequential counter ---------------- *)

\* vector<vector<int>> s(n + 1, vector<int>(R + 1, 0))
EmptyTable(n, r) == [i \in 0..n |-> [j \in 0..r |-> 0]]

\* lines 65-67: s[1][1] and the two clauses x1 <-> s[1][1]
CounterBase(c, lits) ==
    LET v == c.numVars + 1
    IN  [cnf |-> AddClauses(NewVar(c), << <<-lits[1], v>>, <<-v, lits[1]>> >>),
         s   |-> v]

\* lines 74-103: the body of the inner loop for one (i, j)
CounterCell(st, lits, r, i, j) ==
    LET v    == st.cnf.numVars + 1
        s1   == [st.s EXCEPT ![i][j] = v]
        xi   == lits[i]
        prev == s1[i - 1]
        fwdKeep == IF j <= i - 1 /\ prev[j] # 0
                   THEN << <<-prev[j], v>> >> ELSE <<>>
        fwdInc  == IF j >= 2 /\ prev[j - 1] # 0
                   THEN << <<-xi, -prev[j - 1], v>> >> ELSE <<>>
        fwdOne  == IF j = 1 THEN << <<-xi, v>> >> ELSE <<>>
        bwd     == IF j = 1
                   THEN IF prev[1] # 0
                        THEN << <<-v, prev[1], xi>> >>
                        ELSE << <<-v, xi>> >>
                   ELSE IF j <= i - 1
                        THEN (IF prev[j] # 0
                              THEN << <<-v, prev[j], xi>> >> ELSE <<>>)
                             \o
                             (IF prev[j - 1] # 0 /\ prev[j] # 0
                              THEN << <<-v, prev[j], prev[j - 1]>> >> ELSE <<>>)
                        ELSE <<>>
    IN  [cnf |-> AddClauses(NewVar(st.cnf), fwdKeep \o fwdInc \o fwdOne \o bwd),
         s   |-> s1]

RECURSIVE CounterRow(_, _, _, _, _)
\* line 73: for (j = 1; j <= min(i, R); ++j)
CounterRow(st, lits, r, i, j) ==
    IF j > Min(i, r) THEN st
    ELSE CounterRow(CounterCell(st, lits, r, i, j), lits, r, i, j + 1)

\* lines 106-109: forbid xi when the prefix already holds R trues
CounterAtMost(st, lits, r, i) ==
    IF st.s[i - 1][r] # 0
    THEN [st EXCEPT !.cnf = AddClause(@, <<-lits[i], -st.s[i - 1][r]>>)]
    ELSE st

RECURSIVE CounterRows(_, _, _, _)
\* line 70: for (i = 2; i <= n; ++i)
CounterRows(st, lits, r, i) ==
    IF i > Len(lits) THEN st
    ELSE CounterRows(CounterAtMost(CounterRow(st, lits, r, i, 1), lits, r, i),
                     lits, r, i + 1)

\* int buildSequentialCounter(CNF& cnf, xs, R): the CNF after the call and
\* the returned variable (0 when nothing was built)
buildSequentialCounter(c, lits, r) ==
    LET n == Len(lits)
    IN  IF r > n \/ r <= 0 \/ n = 0
        THEN [cnf |-> c, ret |-> 0]
        ELSE LET base == CounterBase(c, lits)
                 st0  == [cnf |-> base.cnf,
                          s   |-> [EmptyTable(n, r) EXCEPT ![1][1] = base.s]]
                 fin  == CounterRows(st0, lits, r, 2)
             IN  [cnf |-> fin.cnf, ret |-> fin.s[n][r]]

\* addAtMostK with the vacuity test R > size in place of R >= size
addAtMostK_OffByOne(c, lits, r) ==
    IF Len(lits) = 0 \/ r > Len(lits) THEN c
    ELSE buildSequentialCounter(c, lits, r).cnf

\* void addAtMostK(CNF& cnf, xs, R)
addAtMostK(c, lits, r) ==
    IF Len(lits) = 0 \/ r >= Len(lits) THEN c
    ELSE buildSequentialCounter(c, lits, r).cnf

\* void addExactlyK(CNF& cnf, xs, Kexact)
addExactlyK(c, lits, Kexact) ==
    LET N == Len(lits)
    IN  IF Kexact < 0 \/ Kexact > N \/ N = 0 THEN c
        ELSE LET b == buildSequentialCounter(c, lits, Kexact)
             IN  IF b.ret # 0 THEN AddClause(b.cnf, <<b.ret>>) ELSE b.cnf

(* ---------------- truth assignments ---------------- *)

\* an assignment is the set of the variables it makes true
LitTrue(l, a) == IF l > 0 THEN l \in a ELSE (-l) \notin a

ClauseSat(cl, a) == \E i \in 1..Len(cl) : LitTrue(cl[i], a)

CnfSat(c, a) == \A i \in 1..Len(c.clauses) : ClauseSat(c.clauses[i], a)

\* a, an assignment of the variables 1..n, extends over the auxiliary
\* variables n+1..numVars to a model of c
Extendable(c, n, a) ==
    \E aux \in SUBSET ((n + 1)..c.numVars) : CnfSat(c, a \cup aux)

\* how many literals of lits are true under a
CountTrue(lits, a) == Cardinality({i \in 1..Len(lits) : LitTrue(lits[i], a)})

(* ---------------- dominance reduction ---------------- *)

\* bool dominatesVelocity(a, b, nearZero, primeDivisors)
dominatesVelocity(a, b, nz, pd) ==
    /\ (nz[a] \cup nz[b]) = nz[a]
    /\ \A q \in Range(pd) : ~(b % q = 0 /\ a % q # 0)

\* the outer-loop pass with the inner loop started at j = i + 1
CandScanStep_Forward(dominated, i, cands, nz, pd) ==
    IF dominated[i] THEN dominated
    ELSE [j \in DOMAIN dominated |->
            IF j <= i \/ dominated[j] THEN dominated[j]
            ELSE dominatesVelocity(cands[i], cands[j], nz, pd)]

\* the outer-loop pass without the test that skips a dominated candidate
CandScanStep_NoSkip(dominated, i, cands, nz, pd) ==
    [j \in DOMAIN dominated |->
        IF i = j \/ dominated[j] THEN dominated[j]
        ELSE dominatesVelocity(cands[i], cands[j], nz, pd)]

\* lines 179-185: one pass of the outer loop, for candidate position i
CandScanStep(dominated, i, cands, nz, pd) ==
    IF dominated[i] THEN dominated
    ELSE [j \in DOMAIN dominated |->
            IF i = j \/ dominated[j] THEN dominated[j]
            ELSE dominatesVelocity(cands[i], cands[j], nz, pd)]

RECURSIVE CandScan(_, _, _, _, _)
\* line 178: for (i = 0; i < numCand; ++i)
CandScan(dominated, i, cands, nz, pd) ==
    IF i > Len(cands) THEN dominated
    ELSE CandScan(CandScanStep(dominated, i, cands, nz, pd), i + 1, cands, nz, pd)

RECURSIVE Unflagged(_, _, _)
\* lines 188-191: the elements whose flag is not set, from position i on
Unflagged(seq, flag, i) ==
    IF i > Len(seq) THEN <<>>
    ELSE (IF flag[i] THEN <<>> ELSE <<seq[i]>>) \o Unflagged(seq, flag, i + 1)

\* vector<int> reduceCandidatesByDominance(candidates, nearZero, primeDivisors)
reduceCandidatesByDominance(cands, nz, pd) ==
    LET dominated == CandScan([i \in 1..Len(cands) |-> FALSE], 1, cands, nz, pd)
    IN  Unflagged(cands, dominated, 1)

\* the requirement slots t = 0 .. maxM-1
Slots == 0..(NumSlots - 1)

\* buildCoverageSets: per slot, the positions of the candidates covering it
buildCoverageSets(cands, nz) ==
    [t \in Slots |-> {j \in 1..Len(cands) : t \in nz[cands[j]]}]

\* the outer-loop pass without the test that skips a redundant slot
TimeScanStep_NoSkip(redundant, t1, cover) ==
    [t2 \in DOMAIN redundant |->
        IF t1 = t2 \/ redundant[t2] THEN redundant[t2]
        ELSE (cover[t1] \cup cover[t2]) = cover[t2]]

\* the outer-loop pass with a strict subset test
TimeScanStep_Strict(redundant, t1, cover) ==
    IF redundant[t1] THEN redundant
    ELSE [t2 \in DOMAIN redundant |->
            IF t1 = t2 \/ redundant[t2] THEN redundant[t2]
            ELSE (cover[t1] \cup cover[t2]) = cover[t2] /\ cover[t1] # cover[t2]]

\* lines 215-220: one pass of the outer loop, for slot t1
TimeScanStep(redundant, t1, cover) ==
    IF redundant[t1] THEN redundant
    ELSE [t2 \in DOMAIN redundant |->
            IF t1 = t2 \/ redundant[t2] THEN redundant[t2]
            ELSE (cover[t1] \cup cover[t2]) = cover[t2]]

RECURSIVE TimeScan(_, _, _)
\* line 214: for (t1 = 0; t1 < numTimes; ++t1)
TimeScan(redundant, t1, cover) ==
    IF t1 \notin DOMAIN cover THEN redundant
    ELSE TimeScan(TimeScanStep(redundant, t1, cover), t1 + 1, cover)

RECURSIVE Essential(_, _, _)
\* lines 223-226: the slots not marked redundant, in increasing order
Essential(redundant, t, cover) ==
    IF t \notin DOMAIN cover THEN <<>>
    ELSE (IF redundant[t] THEN <<>> ELSE <<t>>) \o Essential(redundant, t + 1, cover)

\* vector<int> reduceTimesByDominance(cover)
reduceTimesByDominance(cover) ==
    LET redundant == TimeScan([t \in DOMAIN cover |-> FALSE], 0, cover)
    IN  Essential(redundant, 0, cover)

(* ---------------- constraint assembly (main) ---------------- *)

RECURSIVE AllocVars(_, _)
\* lines 300-303: one variable per candidate; returns the CNF and xVars
AllocVars(st, n) ==
    IF n = 0 THEN st
    ELSE AllocVars([cnf   |-> NewVar(st.cnf),
                    xVars |-> Append(st.xVars, st.cnf.numVars + 1)], n - 1)

RECURSIVE CoverClause(_, _, _, _, _)
\* lines 308-313: the literals of the candidates covering slot t, from j on
CoverClause(t, cands, nz, xv, j) ==
    IF j > Len(cands) THEN <<>>
    ELSE (IF t \in nz[cands[j]] THEN <<xv[j]>> ELSE <<>>)
         \o CoverClause(t, cands, nz, xv, j + 1)

\* the coverage-loop body that hands every clause, empty or not, to addClause
CoverageStep_Omit(st, t, cands, nz, xv) ==
    [st EXCEPT !.cnf = AddClause(@, CoverClause(t, cands, nz, xv, 1))]

\* lines 308-324: the body of the coverage loop for slot t
CoverageStep(st, t, cands, nz, xv) ==
    LET clause == CoverClause(t, cands, nz, xv, 1)
    IN  IF clause = <<>>
        THEN LET cnt   == st.count + 1
                 dummy == st.cnf.numVars + 1
             IN  IF cnt = 1
                 THEN [cnf   |-> AddClauses(NewVar(st.cnf), << <<dummy>>, <<-dummy>> >>),
                       count |-> cnt]
                 ELSE [st EXCEPT !.count = cnt]
        ELSE [st EXCEPT !.cnf = AddClause(@, clause)]

RECURSIVE CoverageLoop(_, _, _, _, _)
\* line 307: for (int t : essentialTimes)
CoverageLoop(st, times, cands, nz, xv) ==
    IF times = <<>> THEN st
    ELSE CoverageLoop(CoverageStep(st, Head(times), cands, nz, xv),
                      Tail(times), cands, nz, xv)

RECURSIVE ClassLits(_, _, _, _)
\* lines 337-343: the literals of the candidates divisible by d, from j on
ClassLits(d, cands, xv, j) ==
    IF j > Len(cands) THEN <<>>
    ELSE (IF cands[j] % d = 0 THEN <<xv[j]>> ELSE <<>>)
         \o ClassLits(d, cands, xv, j + 1)

RECURSIVE GcdLoop(_, _, _, _, _)
\* lines 336-350: for each divisor, at most max(0, k-2) of its multiples
GcdLoop(c, divs, cands, xv, kk) ==
    IF divs = <<>> THEN c
    ELSE LET lits == ClassLits(Head(divs), cands, xv, 1)
             next == IF lits # <<>> THEN addAtMostK(c, lits, Max(0, kk - 2)) ELSE c
         IN  GcdLoop(next, Tail(divs), cands, xv, kk)

(* ---------------- Spec: the pipeline of main ---------------- *)

\* the elements of a set of integers as a strictly increasing sequence
SortedSeq(S) ==
    CHOOSE q \in [1..Cardinality(S) -> S] :
        \A i, j \in 1..Cardinality(S) : i < j => q[i] < q[j]

\* the divisor lists of getPrimeDivisors that can divide a velocity of the model
DivisorLists == {<<>>, <<2>>, <<3>>, <<2, 3>>}

Init ==
    /\ pc = "start"
    /\ initialCandidates \in {SortedSeq(S) : S \in SUBSET (1..MaxVel)}
    /\ nearZero \in [1..MaxVel -> SUBSET Slots]
    \* only the rows of candidates are ever read: the others are left empty
    /\ \A v \in 1..MaxVel : v \notin Range(initialCandidates) => nearZero[v] = {}
    /\ candidates = initialCandidates
    /\ primeDivisors \in DivisorLists
    /\ k \in 0..MaxK
    /\ coverSets = <<>>
    /\ essentialTimes = <<>>
    /\ xVars = <<>>
    /\ uncoverable_count = 0
    /\ cnf = EmptyCNF
    /\ xs = <<>>
    /\ R = 0

\* line 272
ReduceCandidates ==
    /\ pc = "start"
    /\ pc' = "candidatesReduced"
    /\ candidates' = reduceCandidatesByDominance(candidates, nearZero, primeDivisors)
    /\ UNCHANGED <<cnf, xs, R, nearZero, initialCandidates, primeDivisors, k,
                   coverSets, essentialTimes, xVars, uncoverable_count>>

\* line 279
BuildCoverage ==
    /\ pc = "candidatesReduced"
    /\ pc' = "coverageBuilt"
    /\ coverSets' = buildCoverageSets(candidates, nearZero)
    /\ UNCHANGED <<cnf, xs, R, nearZero, initialCandidates, candidates,
                   primeDivisors, k, essentialTimes, xVars, uncoverable_count>>

\* line 283
ReduceTimes ==
    /\ pc = "coverageBuilt"
    /\ pc' = "timesReduced"
    /\ essentialTimes' = reduceTimesByDominance(coverSets)
    /\ UNCHANGED <<cnf, xs, R, nearZero, initialCandidates, candidates,
                   primeDivisors, k, coverSets, xVars, uncoverable_count>>

\* lines 297-329
EmitCoverage ==
    /\ pc = "timesReduced"
    /\ pc' = "covered"
    /\ LET al == AllocVars([cnf |-> cnf, xVars |-> <<>>], Len(candidates))
           st == CoverageLoop([cnf |-> al.cnf, count |-> 0], essentialTimes,
                              candidates, nearZero, al.xVars)
       IN  /\ xVars' = al.xVars
           /\ cnf' = st.cnf
           /\ uncoverable_count' = st.count
    /\ UNCHANGED <<xs, R, nearZero, initialCandidates, candidates,
                   primeDivisors, k, coverSets, essentialTimes>>

\* line 332
EmitExactlyK ==
    /\ pc = "covered"
    /\ pc' = "counted"
    /\ cnf' = addExactlyK(cnf, xVars, k)
    /\ UNCHANGED <<xs, R, nearZero, initialCandidates, candidates,
                   primeDivisors, k, coverSets, essentialTimes, xVars,
                   uncoverable_count>>

\* lines 336-350
EmitGcd ==
    /\ pc = "counted"
    /\ pc' = "done"
    /\ cnf' = GcdLoop(cnf, primeDivisors, candidates, xVars, k)
    /\ UNCHANGED <<xs, R, nearZero, initialCandidates, candidates,
                   primeDivisors, k, coverSets, essentialTimes, xVars,
                   uncoverable_count>>

Next ==
    \/ ReduceCandidates
    \/ BuildCoverage
    \/ ReduceTimes
    \/ EmitCoverage
    \/ EmitExactlyK
    \/ EmitGcd

Spec == Init /\ [][Next]_vars

(* ---------------- claims about the pipeline ---------------- *)

\* the instance the assembly encodes, over the candidates cands and the
\* slots ts: some K candidates are chosen, every slot is covered by a chosen
\* candidate, at most max(0, K-2) chosen candidates are multiples of each divisor
SatInstance(cands, ts, nz, pd, kk) ==
    \E S \in SUBSET (1..Len(cands)) :
        /\ Cardinality(S) = kk
        /\ \A t \in ts : \E j \in S : t \in nz[cands[j]]
        /\ \A q \in Range(pd) :
              Cardinality({j \in S : cands[j] % q = 0}) <= Max(0, kk - 2)

CandidatesReduced == pc # "start"

TimesReduced == pc \in {"timesReduced", "covered", "counted", "done"}

Assembled == pc \in {"covered", "counted", "done"}

\* C5: the instance over the candidates and slots that survive both
\* dominance reductions is satisfiable iff the instance over the unreduced
\* candidates and all slots is.
C5_ReductionPreservesSat ==
    TimesReduced =>
        (SatInstance(candidates, Range(essentialTimes), nearZero, primeDivisors, k)
         <=> SatInstance(initialCandidates, Slots, nearZero, primeDivisors, k))

\* C6: reduceTimesByDominance discards a slot only if some slot of the
\* returned list has a covering set that is a subset of (or equal to) its own.
C6_DiscardedSlotHasSurvivingSubset ==
    TimesReduced =>
        \A t \in Slots \ Range(essentialTimes) :
            \E u \in Range(essentialTimes) : coverSets[u] \subseteq coverSets[t]

\* C6's case: a slot was discarded in favour of a slot with a strictly
\* smaller covering set
C6_Witness ==
    /\ pc = "timesReduced"
    /\ \E t \in Slots \ Range(essentialTimes) :
          \E u \in Range(essentialTimes) :
              coverSets[u] \subseteq coverSets[t] /\ coverSets[u] # coverSets[t]

\* slot t has no surviving candidate that covers it
Uncoverable(t) == \A j \in 1..Len(candidates) : t \notin nearZero[candidates[j]]

\* the CNF holds the forced-contradiction pair on a variable that is no
\* candidate's
HasContradictionPair ==
    \E d \in 1..cnf.numVars :
        /\ d \notin Range(xVars)
        /\ \E i \in 1..Len(cnf.clauses) : cnf.clauses[i] = <<d>>
        /\ \E i \in 1..Len(cnf.clauses) : cnf.clauses[i] = <<-d>>

\* C7: if a surviving slot has no surviving candidate covering it, the CNF
\* holds a forced-contradiction pair on a fresh variable and is
\* unsatisfiable, the clauses of the coverable surviving slots are still
\* emitted, and with exactly one such slot the uncoverable count is 1.
C7_UncoverableSlotContradiction ==
    (Assembled /\ \E t \in Range(essentialTimes) : Uncoverable(t)) =>
        /\ HasContradictionPair
        /\ pc = "covered" =>
              ~ \E a \in SUBSET (1..cnf.numVars) : CnfSat(cnf, a)
        /\ \A t \in Range(essentialTimes) :
              ~Uncoverable(t) =>
                  \E i \in 1..Len(cnf.clauses) :
                      cnf.clauses[i] = CoverClause(t, candidates, nearZero, xVars, 1)
        /\ Cardinality({t \in Range(essentialTimes) : Uncoverable(t)}) = 1
              => uncoverable_count = 1

\* C7's case: the assembly ran on a non-empty candidate list with a
\* surviving slot that no surviving candidate covers
C7_Witness ==
    /\ pc = "done"
    /\ candidates # <<>>
    /\ \E t \in Range(essentialTimes) : Uncoverable(t)

\* C8: after reduceCandidatesByDominance no surviving candidate is dominated
\* by a different surviving candidate; of two candidates that dominate each
\* other at most one survives.
C8_NoSurvivorDominated ==
    CandidatesReduced =>
        \A p, q \in 1..Len(candidates) :
            p # q => ~dominatesVelocity(candidates[p], candidates[q],
                                        nearZero, primeDivisors)

\* C8's case: two candidates dominate each other and one of them survives
C8_Witness ==
    /\ pc = "candidatesReduced"
    /\ \E a, b \in Range(initialCandidates) :
          /\ a # b
          /\ dominatesVelocity(a, b, nearZero, primeDivisors)
          /\ dominatesVelocity(b, a, nearZero, primeDivisors)
          /\ a \in Range(candidates)
          /\ b \notin Range(candidates)

\* C9: every candidate eliminated by reduceCandidatesByDominance is
\* dominated by a candidate of the returned list, and a non-empty input
\* yields a non-empty output.
C9_EliminatedHasSurvivingDominator ==
    CandidatesReduced =>
        /\ \A b \in Range(initialCandidates) \ Range(candidates) :
              \E a \in Range(candidates) :
                  dominatesVelocity(a, b, nearZero, primeDivisors)
        /\ initialCandidates # <<>> => candidates # <<>>

\* C9's case: the first candidate marks the second and is itself eliminated
\* later in the scan by the third, the only survivor
C9_Witness ==
    /\ pc = "candidatesReduced"
    /\ Len(initialCandidates) = 3
    /\ candidates = <<initialCandidates[3]>>
    /\ dominatesVelocity(initialCandidates[1], initialCandidates[2],
                         nearZero, primeDivisors)

\* the slots with an empty covering set
EmptySlots == {t \in Slots : coverSets[t] = {}}

\* C10: if some slot has an empty covering set, reduceTimesByDominance
\* returns exactly the lowest such slot; the coverage loop then counts at
\* most one uncoverable slot, and when it counts one the CNF it leaves holds
\* the contradiction pair and no coverage clause.
C10_EmptySlotAlone ==
    /\ (TimesReduced /\ EmptySlots # {}) =>
          essentialTimes = <<CHOOSE t \in EmptySlots : \A u \in EmptySlots : t <= u>>
    /\ uncoverable_count \in {0, 1}
    /\ (pc = "covered" /\ uncoverable_count = 1) =>
          cnf.clauses = << <<Len(candidates) + 1>>, <<-(Len(candidates) + 1)>> >>

\* C10's case: a coverable slot precedes an empty one, and the coverage
\* loop has run
C10_Witness ==
    /\ pc = "covered"
    /\ uncoverable_count = 1
    /\ \E t \in Slots : \E u \in EmptySlots : t < u /\ coverSets[t] # {}

(* ---------------- SpecCard: one cardinality call ---------------- *)

\* the literal lists over the distinct variables 1..n, either polarity
LitLists(n) == {[i \in 1..n |-> f[i] * i] : f \in [1..n -> {-1, 1}]}

\* the CNF a call starts from: it holds the variables of lits and no clause
FreshCNF(lits) == [numVars |-> Len(lits), clauses |-> <<>>]

\* the pipeline's variables, unused by SpecCard
PipelineIdle ==
    /\ nearZero = <<>>
    /\ initialCandidates = <<>>
    /\ candidates = <<>>
    /\ primeDivisors = <<>>
    /\ k = 0
    /\ coverSets = <<>>
    /\ essentialTimes = <<>>
    /\ xVars = <<>>
    /\ uncoverable_count = 0

pipelineVars == <<nearZero, initialCandidates, candidates, primeDivisors, k,
                  coverSets, essentialTimes, xVars, uncoverable_count>>

InitCard ==
    /\ pc = "call"
    /\ xs \in UNION {LitLists(n) : n \in 0..MaxLen}
    /\ R \in (-1)..(MaxLen + 1)
    /\ cnf = FreshCNF(xs)
    /\ PipelineIdle

CallAtMostK ==
    /\ pc = "call"
    /\ pc' = "atmost"
    /\ cnf' = addAtMostK(cnf, xs, R)
    /\ UNCHANGED <<xs, R>>
    /\ UNCHANGED pipelineVars

CallExactlyK ==
    /\ pc = "call"
    /\ pc' = "exactly"
    /\ cnf' = addExactlyK(cnf, xs, R)
    /\ UNCHANGED <<xs, R>>
    /\ UNCHANGED pipelineVars

NextCard == CallAtMostK \/ CallExactlyK

SpecCard == InitCard /\ [][NextCard]_vars

\* the assignments of the variables of xs
XAssignments == SUBSET (1..Len(xs))

\* C1: after addAtMostK(cnf, L, R) with 0 <= R < |L| on a CNF holding only
\* L's variables, an assignment of L's variables extends to a model of the
\* emitted clauses iff at most R literals of L are true under it.
C1_AtMostExact ==
    (pc = "atmost" /\ 0 <= R /\ R < Len(xs)) =>
        \A a \in XAssignments :
            Extendable(cnf, Len(xs), a) <=> CountTrue(xs, a) <= R

\* C2: after addExactlyK(cnf, L, K) with 0 <= K <= |L|, an assignment of L's
\* variables extends to a model iff exactly K literals of L are true, so
\* exactly C(|L|, K) assignments are admitted.
C2_ExactlyExact ==
    (pc = "exactly" /\ 0 <= R /\ R <= Len(xs)) =>
        \A a \in XAssignments :
            Extendable(cnf, Len(xs), a) <=> CountTrue(xs, a) = R

\* C3: addExactlyK(cnf, L, 0) on a non-empty L emits exactly the unit clauses
\* of the negated literals, allocates no auxiliary variable, and the only
\* assignment of L satisfying the CNF is the all-false one.
C3_ExactlyZeroUnits ==
    (pc = "exactly" /\ R = 0 /\ Len(xs) > 0) =>
        /\ cnf.numVars = Len(xs)
        /\ cnf.clauses = [i \in 1..Len(xs) |-> <<-xs[i]>>]
        /\ \A a \in XAssignments : CnfSat(cnf, a) <=> CountTrue(xs, a) = 0

\* the bounds for which a cardinality call is vacuous or malformed
VacuousAtMost == Len(xs) = 0 \/ R >= Len(xs) \/ R < 0

VacuousExactly == R < 0 \/ R > Len(xs)

\* C4: a cardinality call with a vacuous or malformed bound (addAtMostK with
\* |L| = 0, R >= |L| or R < 0; addExactlyK with K < 0 or K > |L|) adds no
\* clause and allocates no variable: the CNF is the one the call started from.
C4_VacuousNoOp ==
    /\ (pc = "atmost" /\ VacuousAtMost) => cnf = FreshCNF(xs)
    /\ (pc = "exactly" /\ VacuousExactly) => cnf = FreshCNF(xs)

\* C4's case: an at-most call whose bound equals the length of a list of
\* two or more literals has returned
C4_Witness == pc = "atmost" /\ Len(xs) >= 2 /\ R = Len(xs)

\* sanity of the encoder where it is right: at most R for R >= 1
AtMostPositiveBound ==
    (pc = "atmost" /\ 1 <= R /\ R < Len(xs)) =>
        \A a \in XAssignments :
            Extendable(cnf, Len(xs), a) <=> CountTrue(xs, a) <= R

\* sanity of the encoder where it is right: exactly 1
ExactlyOne ==
    (pc = "exactly" /\ R = 1 /\ Len(xs) >= 1) =>
        \A a \in XAssignments :
            Extendable(cnf, Len(xs), a) <=> CountTrue(xs, a) = 1

====
